---------------------------- MODULE Spec2Model ----------------------------
(***************************************************************************)
(* Model of link-manager (src/main.py): a FastAPI application that keeps   *)
(* folders, screens, assets and login sessions in one JSON document        *)
(* (db.json).  load_db and save_db each take the file lock on their own,   *)
(* so a request is a sequence of atomic steps (a load, a save) that other  *)
(* requests' steps may interleave with.                                    *)
(*                                                                         *)
(* Text (slugs, users, signatures, keys, session ids) is a sequence of     *)
(* atoms, one atom per character or per opaque run of characters, so that  *)
(* strip(), lower(), replace() and f-string concatenation are computed.    *)
(* A hex digest is the sequence  tag, message..., ")"  : an injective      *)
(* stand-in for SHA-256 / HMAC-SHA-256.                                    *)
(***************************************************************************)
EXTENDS Integers, Sequences, FiniteSets, TLC

VARIABLES
    file_exists,  \* DB_FILE.exists()
    disk,         \* the document stored in DB_FILE
    now,          \* int(time.time())
    issued,       \* session tokens minted so far by secrets.token_urlsafe
    pc,           \* per request slot: where its handler stands
    req,          \* per request slot: the request being served
    db,           \* per request slot: the handler's in-memory copy of the document
    resp,         \* per request slot: the response its handler returned, until it is sent
    loggedOut,    \* history: cookies whose valid-session logout has completed
    made,         \* history: screens stored by a create and untouched since,
                  \*          each with the slug and folder its request asked for
    assets_dir,   \* the files of ASSETS_DIR: name -> size in bytes
    screen_arg,   \* the record handed to normalize_screen called on its own
    screen_out,   \* what that call returned, then what the call on its result returned
    budget        \* how many more events (a request arriving, the clock
                  \*          advancing) may happen: bounds the run

vars == <<file_exists, disk, now, issued, pc, req, db, resp, loggedOut, made,
          assets_dir, screen_arg, screen_out, budget>>

---------------------------------------------------------------------------
(* Bounds of the model *)

NumProcs == 2
MaxEvents == 3
MaxHex == 3
MaxSeqEvents == 4

Procs == 1..NumProcs

---------------------------------------------------------------------------
(* Configuration (src/main.py lines 25-30) *)

AUTH_SECRET == <<"CHANGE_ME_SUPER_SECRET">>
SESSION_TTL_SECONDS == 43200
LOGIN_WINDOW_SECONDS == 300
MAX_ASSET_MB == 10
ALLOWED_EXT == {".png", ".jpg", ".jpeg", ".webp"}

---------------------------------------------------------------------------
(* Text helpers: str.strip, str.lower, str.replace(" ", "-") *)

LowerAtom(a) ==
    CASE a = "X" -> "x"
      [] a = "Y" -> "y"
      [] a = "SHA256(" -> "sha256("
      [] a = "HMAC(" -> "hmac("
      [] a = ".PNG" -> ".png"
      [] OTHER -> a

lower(s) == [i \in 1..Len(s) |-> LowerAtom(s[i])]

RECURSIVE lstrip(_)
lstrip(s) == IF s # <<>> /\ Head(s) = " " THEN lstrip(Tail(s)) ELSE s

RECURSIVE rstrip(_)
rstrip(s) == IF s # <<>> /\ s[Len(s)] = " " THEN rstrip(SubSeq(s, 1, Len(s) - 1)) ELSE s

strip(s) == rstrip(lstrip(s))

replace_spaces(s) == [i \in 1..Len(s) |-> IF s[i] = " " THEN "-" ELSE s[i]]

\* the first of a set of indexes, 0 if there is none
FirstIndex(I) == IF I = {} THEN 0 ELSE CHOOSE i \in I : \A j \in I : i <= j

\* dict.get(key, default)
Get(d, k, default) == IF k \in DOMAIN d THEN d[k] ELSE default

\* dict.pop(key, None): the dict without the key
Pop(d, k) == [x \in DOMAIN d \ {k} |-> d[x]]

\* d[key] = value
Put(d, k, v) == (k :> v) @@ d

\* the values of a sequence, as a set
Range(s) == {s[i] : i \in 1..Len(s)}

\* dict.setdefault(key, value)
SetDefault(d, k, v) == IF k \in DOMAIN d THEN d ELSE Put(d, k, v)

---------------------------------------------------------------------------
(* Digests *)

sha256_hexdigest(msg) == <<"sha256(">> \o msg \o <<")">>

hmac_sha256_hexdigest(key, msg) == <<"hmac(">> \o key \o <<",">> \o msg \o <<")">>

\* the same digest written in upper case: another text, equal after lower()
UpperHex(h) == <<(IF Head(h) = "sha256(" THEN "SHA256(" ELSE "HMAC(")>> \o Tail(h)

hmac_sig(user, ts) ==
    hmac_sha256_hexdigest(AUTH_SECRET, user \o <<":">> \o <<ToString(ts)>>)

simple_key(user) == sha256_hexdigest(user \o <<":">> \o AUTH_SECRET)

sid_to_dbkey(sid) == sha256_hexdigest(sid \o <<":">> \o AUTH_SECRET)

---------------------------------------------------------------------------
(* Sessions *)

cleanup_sessions(data, t) ==
    [data EXCEPT !.sessions =
        [k \in {k \in DOMAIN data.sessions : ~(data.sessions[k].expires_at <= t)}
            |-> data.sessions[k]]]

\* create_session storing the record under the token itself
create_session_raw(data, user, sid, t) ==
    [data EXCEPT !.sessions =
        Put(data.sessions, sid,
            [user |-> user, created_at |-> t, expires_at |-> t + SESSION_TTL_SECONDS])]

create_session(data, user, sid, t) ==
    [data EXCEPT !.sessions =
        Put(data.sessions, sid_to_dbkey(sid),
            [user |-> user, created_at |-> t, expires_at |-> t + SESSION_TTL_SECONDS])]

\* get_session_user with the expiry test off by one: a session still counts at
\* now = expires_at
get_session_user_strict(data, sid, t) ==
    IF sid = <<>> THEN [user |-> <<>>, db |-> data]
    ELSE LET key == sid_to_dbkey(sid) IN
         IF key \notin DOMAIN data.sessions THEN [user |-> <<>>, db |-> data]
         ELSE IF data.sessions[key].expires_at < t
              THEN [user |-> <<>>,
                    db |-> [data EXCEPT !.sessions = Pop(data.sessions, key)]]
              ELSE [user |-> data.sessions[key].user, db |-> data]

\* _get_session_user: the user ("" for None) and the document as the call leaves it
get_session_user(data, sid, t) ==
    IF sid = <<>> THEN [user |-> <<>>, db |-> data]
    ELSE LET key == sid_to_dbkey(sid) IN
         IF key \notin DOMAIN data.sessions THEN [user |-> <<>>, db |-> data]
         ELSE IF data.sessions[key].expires_at <= t
              THEN [user |-> <<>>,
                    db |-> [data EXCEPT !.sessions = Pop(data.sessions, key)]]
              ELSE [user |-> data.sessions[key].user, db |-> data]

delete_session(data, sid) ==
    IF sid = <<>> THEN data
    ELSE [data EXCEPT !.sessions = Pop(data.sessions, sid_to_dbkey(sid))]

---------------------------------------------------------------------------
(* The document store *)

initial_data ==
    [folders |-> <<[id |-> "default", name |-> "General"]>>,
     screens |-> <<>>,
     assets |-> <<>>,
     sessions |-> <<>>]

\* what DB_FILE holds while it does not exist: nothing
NoDoc == [folders |-> <<>>, screens |-> <<>>, assets |-> <<>>, sessions |-> <<>>]

---------------------------------------------------------------------------
(* Random draws.  uuid.uuid4().hex and its prefixes are opaque runs of hex  *)
(* digits, one atom each; secrets.token_urlsafe(32) is an opaque token.     *)

HexTokens == {ToString(i) : i \in 1..MaxHex}

\* the token a login mints: a value never minted before
NewToken == <<ToString(Cardinality(issued) + 1)>>

---------------------------------------------------------------------------
(* The screen normalizer.  Glyphs and accented letters are written in      *)
(* ASCII: "sparkles" for the sparkle emoji, "link" for the link emoji.     *)

default_theme ==
    [text_color |-> "#ffffff",
     brand |-> [title |-> "",
                subtitle |-> "Enlaces rapidos - estilo corporativo",
                logo_type |-> "emoji",
                logo_value |-> "sparkles"],
     bg_type |-> "color",
     bg_value |-> "#0f172a",
     bg_overlay_opacity |-> "0.35",
     bg_overlay_color |-> "#000000",
     bg_blur_px |-> 0,
     bg_zoom |-> "1.0",
     card_color |-> "rgba(255,255,255,0.10)",
     card_border |-> "rgba(255,255,255,0.12)",
     card_radius |-> 16,
     btn_bg |-> "rgba(255,255,255,0.12)",
     btn_text |-> "#ffffff",
     btn_border |-> "rgba(255,255,255,0.14)",
     btn_radius |-> 16]

\* x or default, for text: "" is falsy
OrText(x, default) == IF x = "" THEN default ELSE x

\* lines 95-107: the brand of the merged theme, completed
normalize_brand(brand, title) ==
    LET b1 == SetDefault(brand, "title", OrText(title, "Sin Titulo"))
        b2 == SetDefault(b1, "subtitle", "Enlaces rapidos - estilo corporativo")
        b3 == SetDefault(b2, "logo_type", "emoji")
        b4 == SetDefault(b3, "logo_value", "sparkles")
        b5 == [b4 EXCEPT !["logo_type"] = OrText(b4["logo_type"], "emoji")]
    IN  [b5 EXCEPT !["logo_value"] = OrText(b5["logo_value"], "sparkles")]

\* lines 116-121: one link, completed
normalize_link(l) ==
    SetDefault(SetDefault(SetDefault(SetDefault(SetDefault(l,
        "label", "Link"), "url", "#"), "icon_type", "emoji"),
        "icon_value", "link"), "style", <<>>)

\* normalize_screen over records whose theme/brand are objects and whose
\* links is a list of objects; new_id and new_slug are the uuid draws
normalize_screen(screen, new_id, new_slug) ==
    LET s1 == SetDefault(screen, "id", new_id)
        s2 == SetDefault(s1, "folder_id", "default")
        s3 == SetDefault(s2, "slug", new_slug)
        s4 == SetDefault(s3, "title", "Sin Titulo")
        theme0 == Get(s4, "theme", <<>>)
        theme == IF "brand" \in DOMAIN s4 /\ "brand" \notin DOMAIN theme0
                 THEN Put(theme0, "brand", s4["brand"])
                 ELSE theme0
        merged0 == theme @@ default_theme
        brand == normalize_brand(merged0["brand"], s4["title"])
        merged == [merged0 EXCEPT !["brand"] = brand]
        links == Get(s4, "links", <<>>)
        norm_links == [i \in 1..Len(links) |-> normalize_link(links[i])]
    IN  Put(Put(Put(s4, "theme", merged), "brand", brand), "links", norm_links)

\* a stored screen has id and slug, so normalising it draws nothing
renormalize(screen) == normalize_screen(screen, "", <<>>)

---------------------------------------------------------------------------
(* The screen normalizer over loosely typed input.  A JSON value carries   *)
(* its type: null, bool, num, float (its digits as text), str, list (a     *)
(* sequence of values), dict (a function from keys to values).  A text is  *)
(* one atom, never two characters long; the only text that contains        *)
(* "brand" is "brand".  A call returns its value or raises.                *)

Null == [t |-> "null"]
Bool(b) == [t |-> "bool", b |-> b]
Num(n) == [t |-> "num", n |-> n]
Float(digits) == [t |-> "float", f |-> digits]
Str(s) == [t |-> "str", s |-> s]
List(s) == [t |-> "list", l |-> s]
Dict(d) == [t |-> "dict", d |-> d]

Returned(x) == [ok |-> TRUE, value |-> x, error |-> ""]
Raised(e) == [ok |-> FALSE, value |-> Null, error |-> e]

\* bool(x)
Truthy(x) ==
    CASE x.t = "null" -> FALSE
      [] x.t = "bool" -> x.b
      [] x.t = "num" -> x.n # 0
      [] x.t = "float" -> x.f # "0.0"
      [] x.t = "str" -> x.s # ""
      [] x.t = "list" -> Len(x.l) # 0
      [] x.t = "dict" -> DOMAIN x.d # {}

\* x or y
Or(x, y) == IF Truthy(x) THEN x ELSE y

\* d.get(k) on the keys of a dict
DGet(d, k) == IF k \in DOMAIN d THEN d[k] ELSE Null

\* str(x) of a truthy x; the repr of a list or dict is one opaque text
str_of(x) ==
    CASE x.t = "str" -> x
      [] x.t = "num" -> Str(ToString(x.n))
      [] x.t = "float" -> Str(x.f)
      [] x.t = "bool" -> Str("True")
      [] OTHER -> Str("repr")

\* s is a sequence of [key, value] pairs with text keys
AllPairs(s) ==
    \A i \in 1..Len(s) :
        s[i].t = "list" /\ Len(s[i].l) = 2 /\ s[i].l[1].t = "str"

\* the dict built from such pairs, a later pair winning
PairsToDict(s) ==
    [k \in {s[i].l[1].s : i \in 1..Len(s)} |->
        LET last == CHOOSE i \in 1..Len(s) :
                        /\ s[i].l[1].s = k
                        /\ \A j \in 1..Len(s) : s[j].l[1].s = k => j <= i
        IN  s[last].l[2]]

\* dict(x or {}) and dict.update(x): a dict is taken as is, a sequence must
\* be made of pairs (ValueError, TypeError otherwise), nothing else will do
to_dict(x) ==
    IF ~Truthy(x) THEN Returned(<<>>)
    ELSE CASE x.t = "dict" -> Returned(x.d)
           [] x.t = "list" -> IF AllPairs(x.l) THEN Returned(PairsToDict(x.l))
                              ELSE Raised("ValueError")
           [] x.t = "str" -> Raised("ValueError")
           [] OTHER -> Raised("TypeError")

default_theme_any ==
    [text_color |-> Str("#ffffff"),
     brand |-> Dict([title |-> Str(""),
                     subtitle |-> Str("Enlaces rapidos - estilo corporativo"),
                     logo_type |-> Str("emoji"),
                     logo_value |-> Str("sparkles")]),
     bg_type |-> Str("color"),
     bg_value |-> Str("#0f172a"),
     bg_overlay_opacity |-> Float("0.35"),
     bg_overlay_color |-> Str("#000000"),
     bg_blur_px |-> Num(0),
     bg_zoom |-> Float("1.0"),
     card_color |-> Str("rgba(255,255,255,0.10)"),
     card_border |-> Str("rgba(255,255,255,0.12)"),
     card_radius |-> Num(16),
     btn_bg |-> Str("rgba(255,255,255,0.12)"),
     btn_text |-> Str("#ffffff"),
     btn_border |-> Str("rgba(255,255,255,0.14)"),
     btn_radius |-> Num(16)]

\* with_defaults drawing a new id whether or not the record has one
with_defaults_new_id(screen, new_id, new_slug) ==
    SetDefault(SetDefault(SetDefault(Put(screen,
        "id", Str(new_id)), "folder_id", Str("default")),
        "slug", Str(new_slug)), "title", Str("Sin Titulo"))

\* lines 80-83: the four setdefault calls; new_id, new_slug are the uuid draws
with_defaults(screen, new_id, new_slug) ==
    SetDefault(SetDefault(SetDefault(SetDefault(screen,
        "id", Str(new_id)), "folder_id", Str("default")),
        "slug", Str(new_slug)), "title", Str("Sin Titulo"))

\* lines 85-89: the theme, with a legacy screen.brand moved into it
theme_of(s) ==
    LET theme == Or(DGet(s, "theme"), Dict(<<>>))
        brand == DGet(s, "brand")
    IN  IF brand.t # "dict" THEN Returned(theme)
        ELSE CASE theme.t = "dict" ->
                    Returned(IF "brand" \in DOMAIN theme.d THEN theme
                             ELSE Dict(Put(theme.d, "brand", brand)))
               [] theme.t = "list" ->
                    IF Str("brand") \in Range(theme.l) THEN Returned(theme)
                    ELSE Raised("TypeError")
               [] theme.t = "str" ->
                    IF theme.s = "brand" THEN Returned(theme) ELSE Raised("TypeError")
               [] OTHER -> Raised("TypeError")

\* lines 91-92: default_theme() updated with the theme
merged_theme(theme) ==
    LET d == to_dict(theme) IN
    IF d.ok THEN Returned(d.value @@ default_theme_any) ELSE d

\* lines 95-107: the brand of the merged theme, completed
brand_of(merged, s) ==
    LET b0 == Or(merged["brand"], Dict(<<>>))
        b1 == IF b0.t = "dict" THEN b0.d ELSE <<>>
        b2 == SetDefault(b1, "title", Or(DGet(s, "title"), Str("Sin Titulo")))
        b3 == SetDefault(b2, "subtitle", Str("Enlaces rapidos - estilo corporativo"))
        b4 == SetDefault(b3, "logo_type", Str("emoji"))
        b5 == SetDefault(b4, "logo_value", Str("sparkles"))
        b6 == Put(b5, "logo_type", str_of(Or(b5["logo_type"], Str("emoji"))))
    IN  Put(b6, "logo_value", str_of(Or(b6["logo_value"], Str("sparkles"))))

\* lines 116-121 on the dict made of one entry
link_of(l) ==
    SetDefault(SetDefault(SetDefault(SetDefault(SetDefault(l,
        "label", Str("Link")), "url", Str("#")), "icon_type", Str("emoji")),
        "icon_value", Str("link")), "style", Dict(<<>>))

\* what "for l in links" goes through: the entries of a list; of a dict its
\* keys, of which one that is not empty stands for all (any such key makes
\* the loop raise); of a text its characters, the text standing for them
\* (each is a non-empty text); anything else raises
iterate(links) ==
    CASE links.t = "list" -> Returned(links.l)
      [] links.t = "dict" ->
            IF DOMAIN links.d = {""} THEN Returned(<<Str("")>>)
            ELSE Returned(<<Str(CHOOSE k \in DOMAIN links.d : k # "")>>)
      [] links.t = "str" -> Returned(<<links>>)
      [] OTHER -> Raised("TypeError")

\* lines 113-123: the links, each entry made a dict and completed, the first
\* entry that cannot be made a dict raising
links_of(s) ==
    LET it == iterate(Or(DGet(s, "links"), List(<<>>))) IN
    IF ~it.ok THEN it
    ELSE IF \E i \in 1..Len(it.value) : ~to_dict(it.value[i]).ok
    THEN to_dict(it.value[FirstIndex({i \in 1..Len(it.value) : ~to_dict(it.value[i]).ok})])
    ELSE Returned([i \in 1..Len(it.value) |-> Dict(link_of(to_dict(it.value[i]).value))])

\* lines 78-125: normalize_screen on a record of values of any type
normalize_screen_any(screen, new_id, new_slug) ==
    LET s == with_defaults(screen.d, new_id, new_slug)
        theme == theme_of(s)
        merged == merged_theme(theme.value)
        links == links_of(s)
    IN  IF ~theme.ok THEN theme
        ELSE IF ~merged.ok THEN merged
        ELSE IF ~links.ok THEN links
        ELSE LET brand == Dict(brand_of(merged.value, s)) IN
             Returned(Dict(
                Put(Put(Put(s, "theme", Dict(Put(merged.value, "brand", brand))),
                    "brand", brand), "links", List(links.value))))

---------------------------------------------------------------------------
(* load_db / save_db: each runs whole under FileLock(LOCK_FILE) *)

\* the document load_db returns at time t
load_db_data(t) ==
    IF ~file_exists THEN initial_data
    ELSE cleanup_sessions(
            [disk EXCEPT !.screens =
                [i \in 1..Len(disk.screens) |-> renormalize(disk.screens[i])]], t)

\* load_db writing the initial document whether or not the file exists
load_db_file_unchecked ==
    /\ file_exists' = TRUE
    /\ disk' = initial_data

\* what load_db does to the file: it writes the initial document if missing
load_db_file ==
    /\ file_exists' = TRUE
    /\ disk' = IF file_exists THEN disk ELSE initial_data

\* save_db keeping the folders that are in the file and not in data
save_db_keeping(data) ==
    /\ file_exists' = TRUE
    /\ disk' = IF file_exists
               THEN [data EXCEPT !.folders =
                        @ \o SelectSeq(disk.folders, LAMBDA f : f \notin Range(data.folders))]
               ELSE data

\* lines 256-258: the whole document is written over the file
save_db(data) ==
    /\ file_exists' = TRUE
    /\ disk' = data

---------------------------------------------------------------------------
(* Requests and responses *)

\* a request: the route, the session cookie, the query or body; then what its
\* handler holds: the user require_login returned, the value it will answer
\* with (out), and a note of the branch it took (history, not program state)
NoReq ==
    [kind |-> "none", sid |-> <<>>, data |-> <<>>, user |-> <<>>, out |-> <<>>,
     note |-> ""]

Request(kind, sid, data) ==
    [kind |-> kind, sid |-> sid, data |-> data, user |-> <<>>, out |-> <<>>,
     note |-> ""]

NoResp ==
    [status |-> 0, media |-> "none", detail |-> "", location |-> "",
     cookie_op |-> "none", cookie_val |-> <<>>]

JSONResponse(status, detail) ==
    [status |-> status, media |-> "json", detail |-> detail, location |-> "",
     cookie_op |-> "none", cookie_val |-> <<>>]

HTMLResponse(status, detail) ==
    [status |-> status, media |-> "html", detail |-> detail, location |-> "",
     cookie_op |-> "none", cookie_val |-> <<>>]

RedirectResponse(url) ==
    [status |-> 302, media |-> "redirect", detail |-> "", location |-> url,
     cookie_op |-> "none", cookie_val |-> <<>>]

\* raise HTTPException(status_code, detail): FastAPI answers {"detail": ...}
HTTPException(status, detail) == JSONResponse(status, detail)

set_cookie(r, sid) == [r EXCEPT !.cookie_op = "set", !.cookie_val = sid]

delete_cookie(r) == [r EXCEPT !.cookie_op = "delete", !.cookie_val = <<>>]

FAIL_REDIRECT_URL == "https://gestion.salchimonster.com/tools/link-tree"

LOGOUT_REDIRECT_URL == "https://gestion.salchimonster.com/tools/link-tree"

\* data carries json_mode and the Accept header of a login / logout request
wants_json(data) ==
    \/ Get(data, "json_mode", 0) = 1
    \/ "application/json" \in Range(lower(Get(data, "accept", <<>>)))

fail(data, status_code, detail) ==
    IF wants_json(data) THEN JSONResponse(status_code, detail)
    ELSE delete_cookie(RedirectResponse(FAIL_REDIRECT_URL))

\* one more request arrives and is served in the first free slot (the slots
\* are interchangeable)
Arrive(p) ==
    /\ pc[p] = "idle"
    /\ \A q \in Procs : q < p => pc[q] # "idle"
    /\ budget > 0
    /\ budget' = budget - 1

\* the handler of slot p returns r as the answer to request q
Return(p, q, r) ==
    /\ resp' = [resp EXCEPT ![p] = r]
    /\ pc' = [pc EXCEPT ![p] = "respond"]
    /\ req' = [req EXCEPT ![p] = q]
    /\ db' = [db EXCEPT ![p] = NoDoc]

\* the response goes out and the slot is free for the next request
Send(p) ==
    /\ pc[p] = "respond"
    /\ pc' = [pc EXCEPT ![p] = "idle"]
    /\ req' = [req EXCEPT ![p] = NoReq]
    /\ resp' = [resp EXCEPT ![p] = NoResp]
    /\ UNCHANGED <<file_exists, disk, now, issued, db, loggedOut, budget, made>>
    /\ UNCHANGED <<assets_dir, screen_arg, screen_out>>

---------------------------------------------------------------------------
(* require_login, the dependency of every protected route *)

\* lines 208-211: a protected request arrives; no cookie is a 401, else load_db
\* (note: whether the cookie's logout had completed before the request arrived)
require_login_load(p, kind, sid, data) ==
    /\ Arrive(p)
    /\ IF sid = <<>>
       THEN /\ Return(p, Request(kind, sid, data), HTTPException(401, "No autenticado"))
            /\ UNCHANGED <<file_exists, disk>>
       ELSE /\ load_db_file
            /\ req' = [req EXCEPT ![p] =
                    [Request(kind, sid, data) EXCEPT !.note =
                        IF sid \in loggedOut THEN "revoked" ELSE ""]]
            /\ db' = [db EXCEPT ![p] = load_db_data(now)]
            /\ pc' = [pc EXCEPT ![p] = "rl_check"]
            /\ resp' = resp
    /\ UNCHANGED <<now, issued, loggedOut, made>>
    /\ UNCHANGED <<assets_dir, screen_arg, screen_out>>

\* lines 212-213, 219: _get_session_user on the loaded copy
require_login_check(p) ==
    /\ pc[p] = "rl_check"
    /\ LET r == get_session_user(db[p], req[p].sid, now) IN
       IF r.user = <<>>
       THEN /\ db' = [db EXCEPT ![p] = r.db]
            /\ pc' = [pc EXCEPT ![p] = "rl_save"]
            /\ req' = [req EXCEPT ![p].note = IF r.db # db[p] THEN "expired" ELSE "unknown"]
       ELSE /\ db' = [db EXCEPT ![p] = NoDoc]
            /\ pc' = [pc EXCEPT ![p] = "body"]
            /\ req' = [req EXCEPT ![p].user = r.user]
    /\ UNCHANGED <<file_exists, disk, now, issued, resp, loggedOut, budget, made>>
    /\ UNCHANGED <<assets_dir, screen_arg, screen_out>>

\* lines 214-215: the failed check saves its copy and raises 401
require_login_fail(p) ==
    /\ pc[p] = "rl_save"
    /\ save_db(db[p])
    /\ Return(p, req[p], HTTPException(401, "Sesion invalida o expirada"))
    /\ UNCHANGED <<now, issued, loggedOut, budget, made>>
    /\ UNCHANGED <<assets_dir, screen_arg, screen_out>>

\* GET /auth/me
auth_me(p) ==
    /\ pc[p] = "body"
    /\ req[p].kind = "me"
    /\ Return(p, req[p], JSONResponse(200, "user"))
    /\ UNCHANGED <<file_exists, disk, now, issued, loggedOut, budget, made>>
    /\ UNCHANGED <<assets_dir, screen_arg, screen_out>>

---------------------------------------------------------------------------
(* Folders *)

FolderIdsOf(data) == {data.folders[i].id : i \in 1..Len(data.folders)}

\* lines 448-450: load_db, append a folder with a fresh uuid prefix
\* (fid is the uuid draw: a value no folder of the document has)
create_folder_load(p, fid) ==
    /\ pc[p] = "body"
    /\ req[p].kind = "folder_create"
    /\ load_db_file
    /\ LET data == load_db_data(now)
           new_folder == [id |-> fid, name |-> Get(req[p].data, "name", "Nueva Carpeta")]
       IN  /\ fid \notin FolderIdsOf(data)
           /\ db' = [db EXCEPT ![p] = [data EXCEPT !.folders = Append(@, new_folder)]]
    /\ pc' = [pc EXCEPT ![p] = "save"]
    /\ UNCHANGED <<now, issued, req, resp, loggedOut, budget, made>>
    /\ UNCHANGED <<assets_dir, screen_arg, screen_out>>

\* lines 451-452
create_folder_save(p) ==
    /\ pc[p] = "save"
    /\ req[p].kind = "folder_create"
    /\ save_db(db[p])
    /\ Return(p, req[p], JSONResponse(200, "folder"))
    /\ UNCHANGED <<now, issued, loggedOut, budget, made>>
    /\ UNCHANGED <<assets_dir, screen_arg, screen_out>>

\* delete_folder_refuse answering success instead of the 400
delete_folder_refuse_ok(p) ==
    /\ pc[p] = "body"
    /\ req[p].kind = "folder_delete"
    /\ Get(req[p].data, "id", "") = "default"
    /\ Return(p, req[p], JSONResponse(200, "ok"))
    /\ UNCHANGED <<file_exists, disk, now, issued, loggedOut, budget, made>>
    /\ UNCHANGED <<assets_dir, screen_arg, screen_out>>

\* lines 457-459: the default folder is refused before any load
delete_folder_refuse(p) ==
    /\ pc[p] = "body"
    /\ req[p].kind = "folder_delete"
    /\ Get(req[p].data, "id", "") = "default"
    /\ Return(p, req[p], JSONResponse(400, "No se puede borrar la carpeta General"))
    /\ UNCHANGED <<file_exists, disk, now, issued, loggedOut, budget, made>>
    /\ UNCHANGED <<assets_dir, screen_arg, screen_out>>

\* delete_folder_apply dropping the folder and leaving its screens where they are
delete_folder_apply_keep(data, folder_id) ==
    [data EXCEPT !.folders = SelectSeq(@, LAMBDA f : f.id # folder_id)]

\* lines 462-465 on a loaded document
delete_folder_apply(data, folder_id) ==
    [data EXCEPT
        !.folders = SelectSeq(@, LAMBDA f : f.id # folder_id),
        !.screens = [i \in 1..Len(@) |->
                        IF @[i]["folder_id"] = folder_id
                        THEN [@[i] EXCEPT !["folder_id"] = "default"]
                        ELSE @[i]]]

\* delete_folder_load without the test that spares "default"
delete_folder_load_unguarded(p) ==
    /\ pc[p] = "body"
    /\ req[p].kind = "folder_delete"
    /\ load_db_file
    /\ db' = [db EXCEPT ![p] = delete_folder_apply(load_db_data(now), Get(req[p].data, "id", ""))]
    /\ pc' = [pc EXCEPT ![p] = "save"]
    /\ req' = [req EXCEPT ![p].note =
                IF Get(req[p].data, "id", "") \in FolderIdsOf(load_db_data(now))
                THEN "removed" ELSE "absent"]
    /\ UNCHANGED <<now, issued, resp, loggedOut, budget, made>>
    /\ UNCHANGED <<assets_dir, screen_arg, screen_out>>

\* lines 461-465: any other id: load_db and apply
delete_folder_load(p) ==
    /\ pc[p] = "body"
    /\ req[p].kind = "folder_delete"
    /\ Get(req[p].data, "id", "") # "default"
    /\ load_db_file
    /\ db' = [db EXCEPT ![p] = delete_folder_apply(load_db_data(now), Get(req[p].data, "id", ""))]
    /\ pc' = [pc EXCEPT ![p] = "save"]
    /\ req' = [req EXCEPT ![p].note =
                IF Get(req[p].data, "id", "") \in FolderIdsOf(load_db_data(now))
                THEN "removed" ELSE "absent"]
    /\ UNCHANGED <<now, issued, resp, loggedOut, budget, made>>
    /\ UNCHANGED <<assets_dir, screen_arg, screen_out>>

\* lines 467-468
delete_folder_save(p) ==
    /\ pc[p] = "save"
    /\ req[p].kind = "folder_delete"
    /\ save_db(db[p])
    /\ Return(p, req[p], JSONResponse(200, "ok"))
    /\ UNCHANGED <<now, issued, loggedOut, budget, made>>
    /\ UNCHANGED <<assets_dir, screen_arg, screen_out>>

---------------------------------------------------------------------------
(* Screens *)

ScreenIdsOf(data) == {data.screens[i]["id"] : i \in 1..Len(data.screens)}

SlugsOf(data) == {data.screens[i]["slug"] : i \in 1..Len(data.screens)}

\* line 519: (data.get("slug", "") or "").strip().lower().replace(" ", "-")
slugify(raw) == replace_spaces(lower(strip(raw)))

\* lines 519-530: the entry built from the request body; u_id, u_slug are uuid draws
new_screen_entry(d, u_id, u_slug) ==
    LET slug0 == slugify(Get(d, "slug", <<>>))
        slug == IF slug0 = <<>> THEN <<u_slug>> ELSE slug0
    IN  normalize_screen(
            [id |-> OrText(Get(d, "id", ""), u_id),
             folder_id |-> Get(d, "folder_id", "default"),
             slug |-> slug,
             title |-> Get(d, "title", "Sin Titulo"),
             theme |-> Get(d, "theme", <<>>),
             links |-> Get(d, "links", <<>>)], u_id, <<u_slug>>)

\* lines 533-543: update the first screen with the entry's id, else append,
\* a taken slug getting "-" and a uuid prefix; returns the document and the entry
save_screen_apply(data, entry, suffix) ==
    LET hit == FirstIndex({i \in 1..Len(data.screens) : data.screens[i]["id"] = entry["id"]})
        stored == IF entry["slug"] \in SlugsOf(data)
                  THEN [entry EXCEPT !["slug"] = @ \o <<"-", suffix>>]
                  ELSE entry
    IN  IF hit # 0
        THEN [db |-> [data EXCEPT !.screens[hit] = entry], entry |-> entry,
              path |-> "updated"]
        ELSE [db |-> [data EXCEPT !.screens = Append(@, stored)], entry |-> stored,
              path |-> "created"]

\* lines 517-543; u_id (a value no screen has), u_slug and suffix are the uuid draws
save_screen_load(p, u_id, u_slug, suffix) ==
    /\ pc[p] = "body"
    /\ req[p].kind = "screen_save"
    /\ load_db_file
    /\ LET data == load_db_data(now)
           r == save_screen_apply(data, new_screen_entry(req[p].data, u_id, u_slug), suffix)
       IN  /\ Get(req[p].data, "id", "") = "" => u_id \notin ScreenIdsOf(data)
           /\ db' = [db EXCEPT ![p] = r.db]
           /\ req' = [req EXCEPT ![p].out = r.entry["slug"], ![p].note = r.path]
    /\ pc' = [pc EXCEPT ![p] = "save"]
    /\ UNCHANGED <<now, issued, resp, loggedOut, budget, made>>
    /\ UNCHANGED <<assets_dir, screen_arg, screen_out>>

\* lines 536-537 / 544-545
save_screen_save(p) ==
    /\ pc[p] = "save"
    /\ req[p].kind = "screen_save"
    /\ save_db(db[p])
    /\ Return(p, req[p], JSONResponse(200, "ok"))
    /\ LET id == IF req[p].note = "created"
                 THEN db[p].screens[Len(db[p].screens)]["id"]
                 ELSE req[p].data.id
           others == {m \in made : m.id # id}
       IN  made' = IF req[p].note = "created"
                   THEN others \cup {[id |-> id,
                                         asked |-> slugify(Get(req[p].data, "slug", <<>>)),
                                         folder |-> Get(req[p].data, "folder_id", "")]}
                   ELSE others
    /\ UNCHANGED <<now, issued, loggedOut, budget>>
    /\ UNCHANGED <<assets_dir, screen_arg, screen_out>>

\* lines 550-552
delete_screen_load(p) ==
    /\ pc[p] = "body"
    /\ req[p].kind = "screen_delete"
    /\ load_db_file
    /\ LET data == load_db_data(now) IN
       db' = [db EXCEPT ![p] =
                [data EXCEPT !.screens =
                    SelectSeq(@, LAMBDA s : s["id"] # Get(req[p].data, "id", ""))]]
    /\ pc' = [pc EXCEPT ![p] = "save"]
    /\ UNCHANGED <<now, issued, req, resp, loggedOut, budget, made>>
    /\ UNCHANGED <<assets_dir, screen_arg, screen_out>>

\* lines 553-554
delete_screen_save(p) ==
    /\ pc[p] = "save"
    /\ req[p].kind = "screen_delete"
    /\ save_db(db[p])
    /\ Return(p, req[p], JSONResponse(200, "deleted"))
    /\ made' = {m \in made : m.id # Get(req[p].data, "id", "")}
    /\ UNCHANGED <<now, issued, loggedOut, budget>>
    /\ UNCHANGED <<assets_dir, screen_arg, screen_out>>

\* lines 421-427: the screen GET /s/{slug} renders: the first with that slug
view_screen_result(data, slug) ==
    LET hit == FirstIndex({i \in 1..Len(data.screens) : data.screens[i]["slug"] = slug})
    IN  IF hit = 0 THEN HTMLResponse(404, "")
        ELSE HTMLResponse(200, renormalize(data.screens[hit])["id"])

\* GET /s/{slug}: public, one load_db
view_screen(p, slug) ==
    /\ Arrive(p)
    /\ load_db_file
    /\ Return(p, Request("view", <<>>, [slug |-> slug]), view_screen_result(load_db_data(now), slug))
    /\ UNCHANGED <<now, issued, loggedOut, made>>
    /\ UNCHANGED <<assets_dir, screen_arg, screen_out>>

---------------------------------------------------------------------------
(* Login and logout *)

Abs(x) == IF x < 0 THEN -x ELSE x

Accepted == [ok |-> TRUE, status |-> 200, detail |-> ""]

Rejected(status, detail) == [ok |-> FALSE, status |-> status, detail |-> detail]

\* login_verdict with the window test written >= instead of >
login_verdict_window_short(data, t) ==
    LET user == strip(data.user)
        sig == Get(data, "sig", <<>>)
        key == Get(data, "key", <<>>)
    IN  IF user = <<>> THEN Rejected(400, "user requerido")
        ELSE IF "ts" \in DOMAIN data /\ sig # <<>>
        THEN IF Abs(t - data.ts) >= LOGIN_WINDOW_SECONDS
             THEN Rejected(401, "Login expirado (ts fuera de ventana)")
             ELSE IF hmac_sig(user, data.ts) = lower(strip(sig))
                  THEN Accepted
                  ELSE Rejected(401, "Credenciales invalidas")
        ELSE IF key # <<>>
        THEN IF simple_key(user) = lower(strip(key))
             THEN Accepted
             ELSE Rejected(401, "Credenciales invalidas")
        ELSE Rejected(400, "Debe enviar (ts + sig) o (key)")

\* login_verdict with the simple mode's comparison result dropped
login_verdict_any_key(data, t) ==
    LET user == strip(data.user)
        sig == Get(data, "sig", <<>>)
        key == Get(data, "key", <<>>)
    IN  IF user = <<>> THEN Rejected(400, "user requerido")
        ELSE IF "ts" \in DOMAIN data /\ sig # <<>>
        THEN IF Abs(t - data.ts) > LOGIN_WINDOW_SECONDS
             THEN Rejected(401, "Login expirado (ts fuera de ventana)")
             ELSE IF hmac_sig(user, data.ts) = lower(strip(sig))
                  THEN Accepted
                  ELSE Rejected(401, "Credenciales invalidas")
        ELSE IF key # <<>>
        THEN Accepted
        ELSE Rejected(400, "Debe enviar (ts + sig) o (key)")

\* lines 306-329: the verdict on the query (user, ts, sig, key) at time t
login_verdict(data, t) ==
    LET user == strip(data.user)
        sig == Get(data, "sig", <<>>)
        key == Get(data, "key", <<>>)
    IN  IF user = <<>> THEN Rejected(400, "user requerido")
        ELSE IF "ts" \in DOMAIN data /\ sig # <<>>
        THEN IF Abs(t - data.ts) > LOGIN_WINDOW_SECONDS
             THEN Rejected(401, "Login expirado (ts fuera de ventana)")
             ELSE IF hmac_sig(user, data.ts) = lower(strip(sig))
                  THEN Accepted
                  ELSE Rejected(401, "Credenciales invalidas")
        ELSE IF key # <<>>
        THEN IF simple_key(user) = lower(strip(key))
             THEN Accepted
             ELSE Rejected(401, "Credenciales invalidas")
        ELSE Rejected(400, "Debe enviar (ts + sig) o (key)")

\* a login the verdict rejects: _fail, nothing loaded, nothing saved
auth_login_reject(p, data) ==
    /\ Arrive(p)
    /\ ~login_verdict(data, now).ok
    /\ Return(p, Request("login", <<>>, data), fail(data, login_verdict(data, now).status, login_verdict(data, now).detail))
    /\ UNCHANGED <<file_exists, disk, now, issued, loggedOut, made>>
    /\ UNCHANGED <<assets_dir, screen_arg, screen_out>>

\* lines 332-333: load_db and _create_session with a fresh token
auth_login_load(p, data) ==
    /\ Arrive(p)
    /\ login_verdict(data, now).ok
    /\ load_db_file
    /\ LET sid == NewToken IN
          /\ db' = [db EXCEPT ![p] = create_session(load_db_data(now), strip(data.user), sid, now)]
          /\ req' = [req EXCEPT ![p] =
                        [Request("login", <<>>, data) EXCEPT !.user = strip(data.user), !.out = sid]]
          /\ issued' = issued \cup {sid}
    /\ pc' = [pc EXCEPT ![p] = "save"]
    /\ UNCHANGED <<now, resp, loggedOut, made>>
    /\ UNCHANGED <<assets_dir, screen_arg, screen_out>>

\* lines 334-350
auth_login_save(p) ==
    /\ pc[p] = "save"
    /\ req[p].kind = "login"
    /\ save_db(db[p])
    /\ Return(p, req[p], set_cookie(
            IF wants_json(req[p].data) THEN JSONResponse(200, "ok")
            ELSE RedirectResponse(Get(req[p].data, "next", "/manager")), req[p].out))
    /\ UNCHANGED <<now, issued, loggedOut, budget, made>>
    /\ UNCHANGED <<assets_dir, screen_arg, screen_out>>

\* lines 379-391
logout_response(data) ==
    delete_cookie(IF wants_json(data) THEN JSONResponse(200, "ok")
                  ELSE RedirectResponse(LOGOUT_REDIRECT_URL))

\* lines 372-374 without a cookie: nothing to delete
auth_logout_nocookie(p, data) ==
    /\ Arrive(p)
    /\ Return(p, Request("logout", <<>>, data), logout_response(data))
    /\ UNCHANGED <<file_exists, disk, now, issued, loggedOut, made>>
    /\ UNCHANGED <<assets_dir, screen_arg, screen_out>>

\* lines 375-376: load_db, _delete_session; note records whether the cookie was valid
auth_logout_load(p, sid, data) ==
    /\ Arrive(p)
    /\ sid # <<>>
    /\ load_db_file
    /\ LET loaded == load_db_data(now) IN
         /\ db' = [db EXCEPT ![p] = delete_session(loaded, sid)]
         /\ req' = [req EXCEPT ![p] =
                [Request("logout", sid, data) EXCEPT !.note =
                    IF sid_to_dbkey(sid) \in DOMAIN loaded.sessions
                    THEN "valid" ELSE "unknown"]]
    /\ pc' = [pc EXCEPT ![p] = "save"]
    /\ UNCHANGED <<now, issued, resp, loggedOut, made>>
    /\ UNCHANGED <<assets_dir, screen_arg, screen_out>>

\* lines 377-391
auth_logout_save(p) ==
    /\ pc[p] = "save"
    /\ req[p].kind = "logout"
    /\ save_db(db[p])
    /\ Return(p, req[p], logout_response(req[p].data))
    /\ loggedOut' = IF req[p].note = "valid" THEN loggedOut \cup {req[p].sid} ELSE loggedOut
    /\ UNCHANGED <<now, issued, budget, made>>
    /\ UNCHANGED <<assets_dir, screen_arg, screen_out>>

---------------------------------------------------------------------------
(* Assets.  A file name is a sequence of atoms, an atom that starts with a *)
(* dot being one ".ext" component; an upload is its content type, its file *)
(* name and the length of its content.                                     *)

ExtAtoms == {".png", ".PNG", ".jpg", ".jpeg", ".webp", ".gif"}

\* Path(name).suffix: the last ".ext" component of a name that has a stem
path_suffix(name) ==
    IF Len(name) >= 2 /\ name[Len(name)] \in ExtAtoms THEN name[Len(name)] ELSE ""

\* line 490: Path(file.filename or "").suffix.lower()
ext_of(file) == LowerAtom(path_suffix(file.filename))

\* upload_verdict with the extension test left out
upload_verdict_any_ext(file) ==
    IF file.content_type = <<>> \/ Head(file.content_type) # "image/"
    THEN Rejected(400, "Solo se permiten imagenes")
    ELSE IF file.size > MAX_ASSET_MB * 1024 * 1024
    THEN Rejected(400, "Imagen demasiado grande")
    ELSE Accepted

\* lines 486-496: the checks made before anything is written
upload_verdict(file) ==
    IF file.content_type = <<>> \/ Head(file.content_type) # "image/"
    THEN Rejected(400, "Solo se permiten imagenes")
    ELSE IF ext_of(file) \notin ALLOWED_EXT
    THEN Rejected(400, "Extension no permitida")
    ELSE IF file.size > MAX_ASSET_MB * 1024 * 1024
    THEN Rejected(400, "Imagen demasiado grande")
    ELSE Accepted

\* lines 486-496 raising: HTTPException(400), nothing written
upload_asset_reject(p) ==
    /\ pc[p] = "body"
    /\ req[p].kind = "asset_upload"
    /\ ~upload_verdict(req[p].data).ok
    /\ Return(p, req[p], HTTPException(upload_verdict(req[p].data).status,
                                       upload_verdict(req[p].data).detail))
    /\ UNCHANGED <<file_exists, disk, now, issued, loggedOut, budget, made, assets_dir>>
    /\ UNCHANGED <<screen_arg, screen_out>>

\* lines 498-504: the content is written under a fresh uuid prefix + ext
\* (asset_id is the uuid draw) and the asset record is built
upload_asset_write(p, asset_id) ==
    /\ pc[p] = "body"
    /\ req[p].kind = "asset_upload"
    /\ upload_verdict(req[p].data).ok
    /\ LET safe_name == <<asset_id, ext_of(req[p].data)>> IN
         /\ assets_dir' = Put(assets_dir, safe_name, req[p].data.size)
         /\ req' = [req EXCEPT ![p].out =
                        [id |-> asset_id, name |-> req[p].data.filename,
                         url |-> <<"/assets/">> \o safe_name, kind |-> "image"]]
    /\ pc' = [pc EXCEPT ![p] = "asset_load"]
    /\ UNCHANGED <<file_exists, disk, now, issued, db, resp, loggedOut, budget, made>>
    /\ UNCHANGED <<screen_arg, screen_out>>

\* lines 506-507: load_db, append the record
upload_asset_load(p) ==
    /\ pc[p] = "asset_load"
    /\ load_db_file
    /\ db' = [db EXCEPT ![p] = [load_db_data(now) EXCEPT !.assets = Append(@, req[p].out)]]
    /\ pc' = [pc EXCEPT ![p] = "save"]
    /\ UNCHANGED <<now, issued, req, resp, loggedOut, budget, made, assets_dir>>
    /\ UNCHANGED <<screen_arg, screen_out>>

\* lines 508-510
upload_asset_save(p) ==
    /\ pc[p] = "save"
    /\ req[p].kind = "asset_upload"
    /\ save_db(db[p])
    /\ Return(p, req[p], JSONResponse(200, "asset"))
    /\ UNCHANGED <<now, issued, loggedOut, budget, made, assets_dir>>
    /\ UNCHANGED <<screen_arg, screen_out>>

---------------------------------------------------------------------------
(* Time *)

Tick(d) ==
    /\ budget > 0
    /\ budget' = budget - 1
    /\ now' = now + d
    /\ UNCHANGED <<file_exists, disk, issued, pc, req, db, resp, loggedOut, made>>
    /\ UNCHANGED <<assets_dir, screen_arg, screen_out>>

---------------------------------------------------------------------------
(* The system: requests served concurrently on a fresh deployment *)

\* a fresh deployment: no DB_FILE yet, no request in progress
Fresh ==
    /\ file_exists = FALSE
    /\ disk = NoDoc
    /\ now = 0
    /\ issued = {}
    /\ pc = [p \in Procs |-> "idle"]
    /\ req = [p \in Procs |-> NoReq]
    /\ db = [p \in Procs |-> NoDoc]
    /\ resp = [p \in Procs |-> NoResp]
    /\ loggedOut = {}
    /\ made = {}
    /\ assets_dir = <<>>

\* normalize_screen is not being called on its own
NoCall ==
    /\ screen_arg = Null
    /\ screen_out = <<>>

Init ==
    /\ Fresh
    /\ NoCall
    /\ budget = MaxEvents

\* the cookies a client can present: none, a forged one, or a token once minted
Cookies == issued \cup {<<>>, <<"forged">>}

GoodLogin == [user |-> <<"alice">>, key |-> simple_key(<<"alice">>), json_mode |-> 1]

BadLogin == [user |-> <<"alice">>, key |-> <<"0">>]

Next ==
    \/ \E p \in Procs, sid \in Cookies :
          \/ require_login_load(p, "me", sid, <<>>)
          \/ auth_logout_load(p, sid, <<>>)
    \/ \E p \in Procs, sid \in issued :
          \/ require_login_load(p, "folder_create", sid, <<>>)
          \/ \E f \in {"default", "1"} : require_login_load(p, "folder_delete", sid, [id |-> f])
          \/ require_login_load(p, "screen_save", sid, [slug |-> <<"x">>, folder_id |-> "1"])
          \/ require_login_load(p, "screen_delete", sid, [id |-> "1"])
    \/ \E p \in Procs :
          \/ require_login_check(p)
          \/ require_login_fail(p)
          \/ auth_me(p)
          \/ create_folder_load(p, "1")
          \/ create_folder_save(p)
          \/ delete_folder_refuse(p)
          \/ delete_folder_load(p)
          \/ delete_folder_save(p)
          \/ save_screen_load(p, "1", "1", "1")
          \/ save_screen_save(p)
          \/ delete_screen_load(p)
          \/ delete_screen_save(p)
          \/ view_screen(p, <<"x">>)
          \/ auth_login_reject(p, BadLogin)
          \/ auth_login_load(p, GoodLogin)
          \/ auth_login_save(p)
          \/ auth_logout_nocookie(p, <<>>)
          \/ auth_logout_save(p)
          \/ Send(p)
    \/ Tick(SESSION_TTL_SECONDS)

Spec == Init /\ [][Next]_vars

---------------------------------------------------------------------------
(* The same handlers with one request served at a time: the folder and     *)
(* screen routes, with the bodies and the uuid draws that make slugs and   *)
(* folder references meet                                                  *)

SeqProcs == {1}

ScreenBodies ==
    {[slug |-> <<"X", " ">>, folder_id |-> "1"],
     [slug |-> <<"x", "-", "1">>],
     [slug |-> <<"y">>, folder_id |-> "ghost"],
     [id |-> "2", slug |-> <<"x">>, folder_id |-> "default"]}

InitSeq ==
    /\ Fresh
    /\ NoCall
    /\ budget = MaxSeqEvents

NextSeq ==
    \E p \in SeqProcs :
        \/ auth_login_load(p, GoodLogin)
        \/ auth_login_save(p)
        \/ \E sid \in issued :
              \/ require_login_load(p, "folder_create", sid, <<>>)
              \/ require_login_load(p, "folder_delete", sid, [id |-> "1"])
              \/ \E body \in ScreenBodies : require_login_load(p, "screen_save", sid, body)
              \/ require_login_load(p, "screen_delete", sid, [id |-> "1"])
        \/ require_login_check(p)
        \/ \E fid \in HexTokens : create_folder_load(p, fid)
        \/ create_folder_save(p)
        \/ delete_folder_load(p)
        \/ delete_folder_save(p)
        \/ \E u_id, suffix \in HexTokens : save_screen_load(p, u_id, "1", suffix)
        \/ save_screen_save(p)
        \/ delete_screen_load(p)
        \/ delete_screen_save(p)
        \/ Send(p)

SpecSeq == InitSeq /\ [][NextSeq]_vars

---------------------------------------------------------------------------
(* The session routes served concurrently, with the clock moving inside a  *)
(* session's life as well as past its end                                  *)

\* logins that fail: a wrong key from a browser, no credential at all, and a
\* right signature over a timestamp one second outside the window at time t
FailingLogins(t) ==
    {BadLogin,
     [user |-> <<"alice">>, json_mode |-> 1],
     [user |-> <<"alice">>, ts |-> t - LOGIN_WINDOW_SECONDS - 1,
      sig |-> hmac_sig(<<"alice">>, t - LOGIN_WINDOW_SECONDS - 1), json_mode |-> 1]}

\* the headers of a protected request: a browser's, or an API client's
Headers == {<<>>, [accept |-> <<"application/json">>]}

NextSession ==
    \/ \E p \in Procs :
          \/ auth_login_load(p, GoodLogin)
          \/ \E q \in FailingLogins(now) : auth_login_reject(p, q)
          \/ auth_login_save(p)
          \/ \E sid \in Cookies :
                \/ \E h \in Headers : require_login_load(p, "me", sid, h)
                \/ auth_logout_load(p, sid, <<>>)
          \/ require_login_check(p)
          \/ require_login_fail(p)
          \/ auth_me(p)
          \/ auth_logout_save(p)
          \/ Send(p)
    \/ Tick(1)
    \/ Tick(SESSION_TTL_SECONDS)

SpecSession == Init /\ [][NextSession]_vars

---------------------------------------------------------------------------
(* The upload route, one request at a time, over files on both sides of    *)
(* each check                                                              *)

FileNames ==
    {<<"a", ".png">>, <<"a", ".PNG">>, <<"a", ".gif">>, <<"a", ".png", ".gif">>,
     <<".png">>, <<"a">>}

Uploads ==
    {[content_type |-> c, filename |-> f, size |-> n] :
        c \in {<<"image/", "png">>, <<"text/", "plain">>},
        f \in FileNames,
        n \in {MAX_ASSET_MB * 1024 * 1024, MAX_ASSET_MB * 1024 * 1024 + 1}}

NextAssets ==
    \E p \in SeqProcs :
        \/ auth_login_load(p, GoodLogin)
        \/ auth_login_save(p)
        \/ \E sid \in issued \cup {<<"forged">>}, u \in Uploads :
              require_login_load(p, "asset_upload", sid, u)
        \/ require_login_check(p)
        \/ require_login_fail(p)
        \/ upload_asset_reject(p)
        \/ \E asset_id \in HexTokens : upload_asset_write(p, asset_id)
        \/ upload_asset_load(p)
        \/ upload_asset_save(p)
        \/ Send(p)

SpecAssets == InitSeq /\ [][NextAssets]_vars

---------------------------------------------------------------------------
(* normalize_screen called on raw records, then on what it returned.  The  *)
(* records are put together from fields given or left out: complete and    *)
(* partial values, falsy values, values of the wrong type.                 *)

Absent == [t |-> "absent"]

\* the one-key dict of a field that is given, the empty dict of one left out
Field(k, x) == IF x = Absent THEN <<>> ELSE (k :> x)

RawThemes ==
    {Absent, Null, Str("dark"), Num(5),
     Dict([btn_bg |-> Str("#000000")]),
     Dict([brand |-> Dict([logo_type |-> Str(""), logo_value |-> Num(0)])]),
     Dict([brand |-> Str("acme")]),
     List(<<List(<<Str("btn_bg"), Str("#000000")>>)>>)}

RawBrands ==
    {Absent, Null, Str("acme"),
     Dict([title |-> Str("Acme")]),
     Dict([logo_type |-> Null, logo_value |-> Num(7)])}

RawLinks ==
    {Absent, Null, Num(5), Str("abc"), Dict([a |-> Num(1)]),
     List(<<Dict(<<>>)>>),
     List(<<Dict([label |-> Str("Home")]), Dict([url |-> Str("/x"), style |-> Null])>>),
     List(<<Dict([label |-> Str("Home")]), Null>>),
     List(<<Str("abc")>>),
     List(<<Num(5), Dict(<<>>)>>)}

RawScreens ==
    {Dict(Field("id", i) @@ Field("slug", i) @@ Field("title", title)
            @@ Field("theme", theme) @@ Field("brand", brand) @@ Field("links", links)) :
        i \in {Absent, Str("s1")},
        title \in {Absent, Null, Str(""), Str("Menu")},
        theme \in RawThemes, brand \in RawBrands, links \in RawLinks}

InitNormalize ==
    /\ Fresh
    /\ budget = 0
    /\ screen_arg \in RawScreens
    /\ screen_out = <<>>

\* normalize_screen(screen_arg)
normalize_call(new_id, new_slug) ==
    /\ screen_out = <<>>
    /\ screen_out' = <<normalize_screen_any(screen_arg, new_id, new_slug)>>
    /\ UNCHANGED <<file_exists, disk, now, issued, pc, req, db, resp, loggedOut, made,
                   assets_dir, screen_arg, budget>>

\* normalize_screen(normalize_screen(x)): the second call is given the screen
\* the first returned; an exception of the first call leaves the composition
\* before the second call is made
normalize_again(new_id, new_slug) ==
    /\ Len(screen_out) = 1
    /\ screen_out' = Append(screen_out,
                            IF screen_out[1].ok
                            THEN normalize_screen_any(screen_out[1].value, new_id, new_slug)
                            ELSE screen_out[1])
    /\ UNCHANGED <<file_exists, disk, now, issued, pc, req, db, resp, loggedOut, made,
                   assets_dir, screen_arg, budget>>

NextNormalize ==
    \E new_id, new_slug \in HexTokens :
        \/ normalize_call(new_id, new_slug)
        \/ normalize_again(new_id, new_slug)

SpecNormalize == InitNormalize /\ [][NextNormalize]_vars

---------------------------------------------------------------------------
(* POST /api/folders served concurrently: requests that name their folder, *)
(* so that the folder of one request can be told from that of another      *)

FolderNames == {"A", "B"}

NextFolders ==
    \/ \E p \in Procs, sid \in issued, name \in FolderNames :
          require_login_load(p, "folder_create", sid, [name |-> name])
    \/ \E p \in Procs :
          \/ auth_login_load(p, GoodLogin)
          \/ auth_login_save(p)
          \/ require_login_check(p)
          \/ \E fid \in HexTokens : create_folder_load(p, fid)
          \/ create_folder_save(p)
          \/ Send(p)

SpecFolders == Init /\ [][NextFolders]_vars

---------------------------------------------------------------------------

(* /auth/login alone, one request at a time, over queries that meet every  *)
(* branch of the credential check: both modes, the window's edges, digests *)
(* in other letter case or padded, a padded or blank user                  *)

LoginUsers == {<<"alice">>, <<" ", "alice">>, <<" ">>}

\* timestamps around the window's edges at time t
LoginTs(t) ==
    {t - LOGIN_WINDOW_SECONDS - 1, t - LOGIN_WINDOW_SECONDS, t,
     t + LOGIN_WINDOW_SECONDS, t + LOGIN_WINDOW_SECONDS + 1}

\* a digest as a client may send it: as is, in upper case, padded, or wrong
Variants(h) == {h, UpperHex(h), <<" ">> \o h \o <<" ">>, <<"0">>}

\* ... or made for another timestamp, or over the user as typed
LoginSigs(user, ts) ==
    Variants(hmac_sig(strip(user), ts))
        \cup {hmac_sig(strip(user), ts + 1), hmac_sig(user, ts)}

LoginKeys(user) ==
    Variants(simple_key(strip(user))) \cup {simple_key(user), <<" ">>, <<>>}

LoginQueries(t) ==
    UNION {{[user |-> u, ts |-> ts, sig |-> sig, json_mode |-> j] :
                sig \in LoginSigs(u, ts), j \in {0, 1}} :
            u \in LoginUsers, ts \in LoginTs(t)}
    \cup UNION {{[user |-> u, key |-> k, json_mode |-> j] :
                k \in LoginKeys(u), j \in {0, 1}} :
            u \in LoginUsers}
    \cup {[user |-> <<"alice">>, key |-> <<"0">>, accept |-> <<"application/json">>],
           [user |-> <<"alice">>, ts |-> t, key |-> simple_key(<<"alice">>)],
           [user |-> <<"alice">>, ts |-> t, sig |-> <<"0">>, key |-> simple_key(<<"alice">>)],
           [user |-> <<"alice">>, json_mode |-> 1]}

NextLogin ==
    \/ \E p \in SeqProcs :
          \/ \E q \in LoginQueries(now) :
                \/ auth_login_reject(p, q)
                \/ auth_login_load(p, q)
          \/ auth_login_save(p)
          \/ Send(p)
    \/ Tick(LOGIN_WINDOW_SECONDS + 1)

SpecLogin == Init /\ [][NextLogin]_vars

---------------------------------------------------------------------------
(* Properties of the concurrent system (Spec) *)

\* C1: once a logout carrying a valid session cookie has completed, the
\* session's record is absent from the persisted document, and every /auth/me
\* that arrives later with the same cookie is answered 401, whatever load and
\* save steps of other requests interleave.
C1_LogoutRevokes ==
    /\ \A s \in loggedOut : sid_to_dbkey(s) \notin DOMAIN disk.sessions
    /\ \A p \in Procs :
          (pc[p] = "respond" /\ req[p].kind = "me" /\ req[p].sid \in loggedOut
              /\ req[p].note = "revoked")
          => resp[p].status = 401

DefaultFolders(data) == {i \in 1..Len(data.folders) : data.folders[i].id = "default"}

\* C4: whenever the persisted document exists it holds exactly one folder
\* whose id is "default": no sequence of requests removes it or adds another.
C4_OneDefaultFolder == file_exists => Cardinality(DefaultFolders(disk)) = 1

\* C4's case: a folder delete that removed a stored folder has gone through
C4_Witness ==
    /\ file_exists
    /\ FolderIdsOf(disk) = {"default"}
    /\ \E p \in Procs :
          /\ pc[p] = "respond" /\ req[p].kind = "folder_delete" /\ resp[p].status = 200
          /\ req[p].note = "removed"

DeletesDefault(q) == q.kind = "folder_delete" /\ Get(q.data, "id", "") = "default"

\* C5: an authenticated /api/folders/delete of "default" is answered 400, and
\* none of its steps (the session check that lets it in, the handler) writes
\* the persisted document.
C5_DefaultDeleteRefused ==
    [][\A p \in Procs :
        /\ (pc[p] = "idle" /\ pc'[p] = "rl_check" /\ DeletesDefault(req'[p])
                /\ sid_to_dbkey(req'[p].sid) \in DOMAIN db'[p].sessions)
            => UNCHANGED <<file_exists, disk>>
        /\ (pc[p] = "rl_check" /\ pc'[p] = "body" /\ DeletesDefault(req[p]))
            => UNCHANGED <<file_exists, disk>>
        /\ (pc[p] = "body" /\ pc'[p] # "body" /\ DeletesDefault(req[p]))
            => /\ UNCHANGED <<file_exists, disk>>
               /\ pc'[p] = "respond"
               /\ resp'[p].status = 400
    ]_vars

\* C5's case: the refusal is the answer while the document holds another folder
C5_Witness ==
    \E p \in Procs :
        /\ pc[p] = "respond" /\ DeletesDefault(req[p]) /\ resp[p].status = 400
        /\ Len(disk.folders) > 1

\* C10: require_login lets a request through only while
\* now < created_at + TTL of its cookie's session; a request it turns away,
\* for an expired session as for an unknown cookie, gets the same 401, and when
\* it completes the persisted document holds no record for the cookie.
C10_ExpiredNeverAuthorised ==
    [][\A p \in Procs :
        LET key == sid_to_dbkey(req[p].sid) IN
        /\ (pc[p] = "rl_check" /\ pc'[p] = "body")
            => /\ key \in DOMAIN db[p].sessions
               /\ now < db[p].sessions[key].created_at + SESSION_TTL_SECONDS
        /\ (pc[p] = "rl_save" /\ pc'[p] = "respond")
            => /\ resp'[p] = HTTPException(401, "Sesion invalida o expirada")
               /\ key \notin DOMAIN disk'.sessions
    ]_vars

\* C10's case: a request whose session had expired has been turned away
C10_Witness ==
    \E p \in Procs :
        /\ pc[p] = "respond" /\ req[p].note = "expired" /\ resp[p].status = 401
        /\ req[p].sid \in issued

---------------------------------------------------------------------------
(* Properties of the folder and screen routes served one at a time (SpecSeq) *)

\* the slug stored for the screen with this id
SlugOf(data, id) ==
    data.screens[FirstIndex({i \in 1..Len(data.screens) : data.screens[i]["id"] = id})]["slug"]

\* C2: in the persisted document no two screens have the same slug, after
\* any sequence of screen saves (creating or updating by id) and deletes.
C2_SlugsUnique ==
    file_exists =>
        \A i, j \in 1..Len(disk.screens) :
            disk.screens[i]["slug"] = disk.screens[j]["slug"] => i = j

\* C3: in the persisted document every screen's folder_id is the id of a
\* stored folder, and a screen save whose folder_id is missing or names no
\* stored folder has put its screen under "default".
C3_FolderIdsExist ==
    /\ file_exists =>
          \A i \in 1..Len(disk.screens) :
              disk.screens[i]["folder_id"] \in FolderIdsOf(disk)
    /\ \A p \in Procs :
          (pc[p] = "respond" /\ req[p].kind = "screen_save"
              /\ Get(req[p].data, "folder_id", "") \notin FolderIdsOf(disk))
          => \A i \in 1..Len(disk.screens) :
                disk.screens[i]["slug"] = req[p].out
                => disk.screens[i]["folder_id"] = "default"

\* C6: when the save of a folder delete with a non-default id F completes,
\* served with nothing interleaved, the persisted document has no folder F,
\* its other folders are the ones it had, in order, every screen that was in
\* F is in "default", and every other field of every screen is what it was.
C6_FolderDeleteReassigns ==
    [][\A p \in SeqProcs :
        (pc[p] = "save" /\ req[p].kind = "folder_delete" /\ pc'[p] = "respond")
        => LET F == req[p].data.id IN
           /\ F # "default"
           /\ F \notin FolderIdsOf(disk')
           /\ disk'.folders = SelectSeq(disk.folders, LAMBDA f : f.id # F)
           /\ Len(disk'.screens) = Len(disk.screens)
           /\ \A i \in 1..Len(disk.screens) :
                 LET old == disk.screens[i]
                     new == disk'.screens[i]
                 IN  /\ DOMAIN new = DOMAIN old
                     /\ new["folder_id"] =
                            IF old["folder_id"] = F THEN "default" ELSE old["folder_id"]
                     /\ \A k \in DOMAIN old \ {"folder_id"} : new[k] = old[k]
           /\ disk'.assets = disk.assets
    ]_vars

\* C6's case: a stored folder was deleted and a screen created in it is now
\* stored under "default"
C6_Witness ==
    \E p \in SeqProcs :
        /\ pc[p] = "respond" /\ req[p].kind = "folder_delete" /\ resp[p].status = 200
        /\ req[p].note = "removed"
        /\ \E m \in made :
              /\ m.folder = req[p].data.id
              /\ \E i \in 1..Len(disk.screens) :
                    /\ disk.screens[i]["id"] = m.id
                    /\ disk.screens[i]["folder_id"] = "default"

\* C7: two stored screens that were created with the same requested slug
\* have different slugs, and the public lookup of each one's slug renders
\* that screen, whatever suffix was drawn.
C7_SameSlugBothRetrievable ==
    \A m1, m2 \in made :
        (/\ m1.id # m2.id
         /\ m1.asked = m2.asked
         /\ {m1.id, m2.id} \subseteq ScreenIdsOf(disk))
        => /\ SlugOf(disk, m1.id) # SlugOf(disk, m2.id)
           /\ view_screen_result(load_db_data(now), SlugOf(disk, m1.id)) = HTMLResponse(200, m1.id)
           /\ view_screen_result(load_db_data(now), SlugOf(disk, m2.id)) = HTMLResponse(200, m2.id)

---------------------------------------------------------------------------
(* Properties of /auth/login (SpecLogin) *)

\* the query is in timestamped mode: ts given and sig not empty (line 312)
Timestamped(q) == "ts" \in DOMAIN q /\ Get(q, "sig", <<>>) # <<>>

\* the query is in simple mode: no (ts, sig) pair, key not empty (line 321)
SimpleMode(q) == ~Timestamped(q) /\ Get(q, "key", <<>>) # <<>>

\* a login arrives in slot p
LoginArrives(p) == pc[p] = "idle" /\ req'[p].kind = "login"

\* the step accepts the login: a session for the trimmed user is created
\* under a token minted now and goes on to be saved
LoginGoesOn(p) ==
    /\ pc'[p] = "save"
    /\ req'[p].out \notin issued
    /\ sid_to_dbkey(req'[p].out) \in DOMAIN db'[p].sessions
    /\ db'[p].sessions[sid_to_dbkey(req'[p].out)].user = strip(req'[p].data.user)

\* the step turns the login away: an answer without a session cookie, no
\* token minted, the stored sessions untouched
LoginTurnedAway(p) ==
    /\ pc'[p] = "respond"
    /\ resp'[p].cookie_op # "set"
    /\ issued' = issued
    /\ disk'.sessions = disk.sessions

\* an accepted login completes: the session is persisted and the answer
\* sets the session cookie to its token
LoginCompletes(p) ==
    (pc[p] = "save" /\ req[p].kind = "login" /\ pc'[p] = "respond")
    => /\ sid_to_dbkey(req[p].out) \in DOMAIN disk'.sessions
       /\ resp'[p].cookie_op = "set"
       /\ resp'[p].cookie_val = req[p].out
       /\ resp'[p].status \in {200, 302}

\* C8 as stated: a timestamped login succeeds and creates a session exactly
\* when sig equals the keyed hash of "user:ts" and |now - ts| <= window.
C8_SigEqualAndInWindow ==
    [][\A p \in SeqProcs :
        /\ (LoginArrives(p) /\ Timestamped(req'[p].data) /\ strip(req'[p].data.user) # <<>>)
            => LET q == req'[p].data IN
               IF /\ q.sig = hmac_sig(strip(q.user), q.ts)
                  /\ Abs(now - q.ts) <= LOGIN_WINDOW_SECONDS
               THEN LoginGoesOn(p)
               ELSE LoginTurnedAway(p)
        /\ LoginCompletes(p)
    ]_vars

\* C8: a timestamped login with a non-blank user succeeds and creates a
\* session exactly when sig, trimmed and lowercased, equals the keyed hash
\* of "user:ts" for the trimmed user and |now - ts| <= window; outside the
\* window, or with any other sig, it is turned away and creates no session.
C8_SigNormalisedAndInWindow ==
    [][\A p \in SeqProcs :
        /\ (LoginArrives(p) /\ Timestamped(req'[p].data) /\ strip(req'[p].data.user) # <<>>)
            => LET q == req'[p].data IN
               IF /\ lower(strip(q.sig)) = hmac_sig(strip(q.user), q.ts)
                  /\ Abs(now - q.ts) <= LOGIN_WINDOW_SECONDS
               THEN LoginGoesOn(p)
               ELSE LoginTurnedAway(p)
        /\ LoginCompletes(p)
    ]_vars

\* C8's case: a login whose ts is exactly one window away and whose sig is
\* the digest in another spelling has been answered with a session cookie
C8_Witness ==
    \E p \in SeqProcs :
        /\ pc[p] = "respond" /\ req[p].kind = "login" /\ Timestamped(req[p].data)
        /\ resp[p].cookie_op = "set"
        /\ Abs(now - req[p].data.ts) = LOGIN_WINDOW_SECONDS
        /\ req[p].data.sig # hmac_sig(strip(req[p].data.user), req[p].data.ts)
        /\ sid_to_dbkey(req[p].out) \in DOMAIN disk.sessions

---------------------------------------------------------------------------
(* Session records (SpecSession) *)

\* every stored session record sits under the hash of a minted token, not
\* under a token, and expires one TTL after its creation
SessionsWellKeyed(data) ==
    \A k \in DOMAIN data.sessions :
        /\ \E s \in issued : k = sid_to_dbkey(s)
        /\ k \notin issued
        /\ data.sessions[k].expires_at = data.sessions[k].created_at + SESSION_TTL_SECONDS

\* C11: in every reachable state each session record of the persisted
\* document is stored under the one-way hash of (token, secret), never under
\* the token, with expires_at = created_at + TTL; and no step changes a
\* record that stays stored: a record only appears (login) or disappears
\* (logout, expiry), its fields never move (no sliding renewal).
C11_SessionRecordsFixed ==
    /\ []SessionsWellKeyed(disk)
    /\ [][\A k \in DOMAIN disk.sessions \cap DOMAIN disk'.sessions :
            disk'.sessions[k] = disk.sessions[k]]_vars

\* C11's case: some time after the login a protected request carrying the
\* session's cookie has been let through and answered, the record still stored
C11_Witness ==
    \E p \in Procs :
        /\ pc[p] = "respond" /\ req[p].kind = "me" /\ resp[p].status = 200
        /\ sid_to_dbkey(req[p].sid) \in DOMAIN disk.sessions
        /\ disk.sessions[sid_to_dbkey(req[p].sid)].created_at < now

---------------------------------------------------------------------------
(* Authentication failures (SpecSession) *)

\* the request in slot p has been answered and was an authentication
\* failure: a login that minted no token, or a protected request that
\* require_login did not let through
AuthFailed(p) ==
    /\ pc[p] = "respond"
    /\ \/ req[p].kind = "login" /\ req[p].out = <<>>
       \/ req[p].kind = "me" /\ req[p].user = <<>>

\* C12: every authentication failure (a login without credentials, with a
\* bad signature or key, or with ts outside the window; a protected request
\* with a missing, unknown or expired session) is answered 401 as JSON when
\* the request asks for JSON, and otherwise by the redirect to the fixed
\* external address that clears the session cookie.
C12_AuthFailuresChannelAware ==
    \A p \in Procs :
        AuthFailed(p)
        => IF wants_json(req[p].data)
           THEN resp[p].media = "json" /\ resp[p].status = 401
           ELSE resp[p] = delete_cookie(RedirectResponse(FAIL_REDIRECT_URL))

---------------------------------------------------------------------------
(* Uploads (SpecAssets) *)

\* the file's extension, letter case aside, is not an allowed one, or its
\* content is longer than MAX_ASSET_MB MiB
BadFile(file) ==
    \/ ext_of(file) \notin ALLOWED_EXT
    \/ file.size > MAX_ASSET_MB * 1024 * 1024

\* C13: an upload whose file has an extension outside {.png, .jpg, .jpeg,
\* .webp} or is larger than 10 MiB is answered 400 by the handler, and no
\* step of the request, up to and including the rejection, writes a file to
\* asset storage or changes the asset records of the persisted document.
C13_BadUploadRejectedUnwritten ==
    [][\A p \in SeqProcs :
        /\ (req'[p].kind = "asset_upload" /\ BadFile(req'[p].data))
            => /\ assets_dir' = assets_dir
               /\ disk'.assets = disk.assets
        /\ (pc[p] = "body" /\ req[p].kind = "asset_upload" /\ BadFile(req[p].data))
            => /\ pc'[p] = "respond"
               /\ resp'[p].status = 400
    ]_vars

\* C13's case: an image upload has been turned away with 400 for its
\* extension or size while an earlier upload's file and record are stored
C13_Witness ==
    \E p \in SeqProcs :
        /\ pc[p] = "respond" /\ req[p].kind = "asset_upload" /\ resp[p].status = 400
        /\ BadFile(req[p].data)
        /\ Head(req[p].data.content_type) = "image/"
        /\ Len(disk.assets) = 1
        /\ Cardinality(DOMAIN assets_dir) = 1

---------------------------------------------------------------------------
(* Properties of normalize_screen (SpecNormalize) *)

\* C14: normalize_screen applied to its own output returns a record equal to
\* that output, whatever uuid values the second call draws.
C14_NormalizeIdempotent ==
    Len(screen_out) = 2 => screen_out[2] = screen_out[1]

\* C14's case: a record without id and slug, with a legacy top-level brand
\* whose logo_type is falsy and with partly filled links, normalized twice
C14_Witness ==
    /\ Len(screen_out) = 2
    /\ {"id", "slug", "theme"} \cap DOMAIN screen_arg.d = {}
    /\ DGet(screen_arg.d, "brand") = Dict([logo_type |-> Null, logo_value |-> Num(7)])
    /\ DGet(screen_arg.d, "links").t = "list"
    /\ Len(DGet(screen_arg.d, "links").l) = 2
    /\ screen_out[1].value.d["brand"].d["logo_type"] = Str("emoji")

\* the screen has every key of the default theme in its theme, the four
\* fields of a brand, and links that are dicts with the five fields of a link
FullyPopulated(screen) ==
    /\ {"theme", "brand", "links"} \subseteq DOMAIN screen.d
    /\ screen.d["theme"].t = "dict"
    /\ DOMAIN default_theme_any \subseteq DOMAIN screen.d["theme"].d
    /\ screen.d["brand"].t = "dict"
    /\ {"title", "subtitle", "logo_type", "logo_value"} \subseteq DOMAIN screen.d["brand"].d
    /\ screen.d["links"].t = "list"
    /\ \A i \in 1..Len(screen.d["links"].l) :
          /\ screen.d["links"].l[i].t = "dict"
          /\ {"label", "url", "icon_type", "icon_value", "style"}
                \subseteq DOMAIN screen.d["links"].l[i].d

\* C15: for every input record normalize_screen returns, without raising, a
\* screen with fully populated theme, brand and links, whose theme.brand
\* equals its brand and which has one link per entry of the input's links.
C15_NormalizeTotal ==
    Len(screen_out) >= 1
    => /\ screen_out[1].ok
       /\ FullyPopulated(screen_out[1].value)
       /\ screen_out[1].value.d["theme"].d["brand"] = screen_out[1].value.d["brand"]
       /\ DGet(screen_arg.d, "links").t = "list"
            => Len(screen_out[1].value.d["links"].l) = Len(DGet(screen_arg.d, "links").l)

---------------------------------------------------------------------------
(* Properties of concurrent folder creation (SpecFolders) *)

\* request p is a folder creation that has been answered with success
FolderCreated(p) ==
    /\ pc[p] = "respond"
    /\ req[p].kind = "folder_create"
    /\ resp[p].status = 200

FolderNamesOf(data) == {data.folders[i].name : i \in 1..Len(data.folders)}

\* C16: load and save lock separately, so the save of a folder creation writes
\* the copy its own load returned plus its folder and nothing else: a folder
\* that another request saved in between is no longer in the persisted
\* document.  (That such an interleaving exists is C16_Witness.)
C16_SaveOverwritesWithOwnCopy ==
    [][\A p \in Procs :
          (pc[p] = "save" /\ req[p].kind = "folder_create" /\ pc'[p] = "respond")
          => /\ resp'[p].status = 200
             /\ disk'.folders = db[p].folders
             /\ \A i \in 1..Len(disk.folders) :
                    disk.folders[i] \notin Range(db[p].folders)
                    => disk.folders[i] \notin Range(disk'.folders)]_vars

\* C16's case: two folder creations loaded the document with the default
\* folder only, both were answered with success, and after the second save
\* the persisted document holds the second's folder and not the first's
C16_Witness ==
    \E p, q \in Procs :
        /\ FolderCreated(p) /\ FolderCreated(q)
        /\ req[p].data["name"] = "A" /\ req[q].data["name"] = "B"
        /\ FolderNamesOf(disk) = {"General", "B"}
        /\ Len(disk.folders) = 2

---------------------------------------------------------------------------
(* Properties of the document store under concurrent requests (Spec) *)

\* this step is a load_db of request p: p had no copy and now holds one
LoadStep(p) == db[p] = NoDoc /\ db'[p] # NoDoc

\* C17: load_db runs whole under the lock: the load that finds the file
\* missing writes the default document (one default folder, no screens,
\* assets or sessions), the file exists from then on, so that no second load
\* finds it missing, and a load that finds the file leaves it as it is.
C17_OneLoadWritesDefault ==
    [][/\ file_exists => file_exists'
       /\ \A p \in Procs :
            LoadStep(p)
            => IF file_exists
               THEN disk' = disk
               ELSE /\ file_exists'
                    /\ disk' = [folders |-> <<[id |-> "default", name |-> "General"]>>,
                                screens |-> <<>>, assets |-> <<>>, sessions |-> <<>>]
                    /\ Len(disk'.folders) = 1]_vars

\* C17's case: two requests are in flight on a deployment that started
\* without a file; p's load found it missing and holds the default document,
\* q loaded after a login was saved and holds the file with that session,
\* which is still in the file
C17_Witness ==
    \E p, q \in Procs :
        /\ p # q
        /\ db[p] # NoDoc /\ db[q] # NoDoc
        /\ DOMAIN db[p].sessions = {} /\ DOMAIN db[q].sessions # {}
        /\ DOMAIN disk.sessions # {}

\* C18: the step in which a protected request that failed session validation
\* saves its copy leaves the folders, screens and assets of the persisted
\* document as they are, whatever other requests did in between.
C18_FailedAuthKeepsContent ==
    [][\A p \in Procs :
          (pc[p] = "rl_save" /\ pc'[p] = "respond")
          => /\ disk'.folders = disk.folders
             /\ disk'.screens = disk.screens
             /\ disk'.assets = disk.assets]_vars

---------------------------------------------------------------------------
(* Where session records come from (SpecSession) *)

\* the query carries credentials that verify (lines 312-326): a non-blank
\* user and, in timestamped mode, a ts inside the window with the digest of
\* "user:ts", otherwise the digest of "user:secret" as key
Verifies(q, t) ==
    /\ strip(q.user) # <<>>
    /\ IF Timestamped(q)
       THEN /\ Abs(t - q.ts) <= LOGIN_WINDOW_SECONDS
            /\ lower(strip(q.sig)) = hmac_sig(strip(q.user), q.ts)
       ELSE lower(strip(Get(q, "key", <<>>))) = simple_key(strip(q.user))

\* C19: a login whose credentials do not verify is turned away without
\* loading or saving the document and without a session record, and the
\* only step that puts into the persisted document a session record that
\* was not in it is the save of a login whose credentials verified.
C19_SessionsOnlyFromLogin ==
    [][/\ \A p \in Procs :
            (LoginArrives(p) /\ ~Verifies(req'[p].data, now))
            => /\ LoginTurnedAway(p)
               /\ file_exists' = file_exists /\ disk' = disk
               /\ db'[p] = NoDoc
       /\ ~(DOMAIN disk'.sessions \subseteq DOMAIN disk.sessions)
            => \E p \in Procs :
                  /\ pc[p] = "save" /\ req[p].kind = "login" /\ pc'[p] = "respond"
                  /\ sid_to_dbkey(req[p].out) \in DOMAIN disk'.sessions
      ]_vars

====
